---- MODULE Spec2Model ----
(***************************************************************************)
(* Pay-Bay marketplace (src/app.py): accounts, the login session, listings *)
(* and the payment hand-off, as a state machine with one action per route  *)
(* handler.  Spec runs the handlers one request at a time; SpecConc runs    *)
(* register on several workers, interleaved at its two store accesses.     *)
(***************************************************************************)
EXTENDS Integers, Sequences, FiniteSets, TLC

\* ---- bounds of the model ------------------------------------------------
MaxListings == 2
NumWorkers == 2

\* ---- input domains ------------------------------------------------------
Usernames == {"alice", "bob", "carol"}
Passwords == {"pw1", "pw2"}
\* the registration forms submitted: three distinct accounts, and one form
\* that reuses bob's username and alice's email with another password
RegistrationForms ==
    { [username |-> "alice", email |-> "a@x", password |-> "pw1"],
      [username |-> "bob", email |-> "b@x", password |-> "pw1"],
      [username |-> "carol", email |-> "c@x", password |-> "pw1"],
      [username |-> "bob", email |-> "a@x", password |-> "pw2"] }
Salts == {"s1"}
Prices == {10}
Methods == {"GET", "POST"}
Workers == 1..NumWorkers
\* ids requested on /buy/<int:listing_id>: one more than can exist
ListingIds == 1..(MaxListings + 1)
ProviderOutcomes == {"ok", "fault"}

VARIABLES
    users,      \* table user: sequence of rows, row i has id i
    listings,   \* table listing: sequence of rows, row i has id i
    session,    \* user id held by the browser's login session, 0 if none
    payments,   \* provider side: per listing id, the accounts on whose
                \* request Payment.create accepted a payment for it
    resp,       \* the last request (route, arguments) and its response
    inflight    \* SpecConc: per worker, the register request it is handling

vars == <<users, listings, session, payments, resp, inflight>>

\* ---- collaborators ------------------------------------------------------
\* werkzeug: the stored hash carries its salt; the digest depends on both.
Pbkdf2(salt, pw) == <<salt, pw>>

generate_password_hash(pw, salt) ==
    [method |-> "pbkdf2:sha256", salt |-> salt, digest |-> Pbkdf2(salt, pw)]

check_password_hash(h, pw) == Pbkdf2(h.salt, pw) = h.digest

\* flask_login: 0 is the anonymous session, otherwise the stored user id.
Anonymous == 0

is_authenticated_Open == TRUE

is_authenticated == session # Anonymous

\* ---- requests and responses ---------------------------------------------
NoArgs == [username |-> "", email |-> "", listing_id |-> 0]
FormArgs(form) ==
    [username |-> form.username, email |-> form.email, listing_id |-> 0]
IdArgs(listing_id) == [username |-> "", email |-> "", listing_id |-> listing_id]

Response(route, method, args, code, to, flash) ==
    [route |-> route, method |-> method, args |-> args,
     code |-> code, to |-> to, flash |-> flash]

Render(route, method, args, t, f) == Response(route, method, args, 200, t, f)
Redirect(route, method, args, t, f) == Response(route, method, args, 302, t, f)
NotFound(route, method, args) == Response(route, method, args, 404, "", "")
ServerError(route, method, args) == Response(route, method, args, 500, "", "")
\* login_manager.login_view = 'login'
Unauthorized(route, method, args) ==
    Redirect(route, method, args, "login", "Please log in to access this page.")

\* ---- models -------------------------------------------------------------
User(id, username, email, password) ==
    [id |-> id, username |-> username, email |-> email,
     password |-> password, balance |-> 0]

Listing(id, price, seller_id) ==
    [id |-> id, price |-> price, seller_id |-> seller_id,
     status |-> "active", created_at |-> id]

filter_by_username_Missing(username) == 0

\* User.query.filter_by(username=...).first(): 0 when there is no row
filter_by_username(username) ==
    LET hits == {i \in 1..Len(users) : users[i].username = username}
    IN  IF hits = {} THEN 0 ELSE CHOOSE i \in hits : \A j \in hits : i <= j

UniqueViolation_UsernameOnly(username, email) ==
    \E i \in 1..Len(users) : users[i].username = username

UniqueViolation_EmailOnly(username, email) ==
    \E i \in 1..Len(users) : users[i].email = email

\* the unique=True columns of User, enforced by the store at commit
UniqueViolation(username, email) ==
    \E i \in 1..Len(users) :
        users[i].username = username \/ users[i].email = email

\* ---- index --------------------------------------------------------------
RECURSIVE NewestFirst(_)
NewestFirst(S) ==
    IF S = {} THEN <<>>
    ELSE LET m == CHOOSE l \in S : \A k \in S : k.created_at <= l.created_at
         IN  <<m>> \o NewestFirst(S \ {m})

listActive_NotSold ==
    NewestFirst({listings[i] : i \in {j \in 1..Len(listings) :
                                        listings[j].status # "sold"}})

listActive ==
    NewestFirst({listings[i] : i \in {j \in 1..Len(listings) :
                                        listings[j].status = "active"}})

index ==
    /\ resp' = Render("index", "GET", NoArgs, "index.html", "")
    /\ UNCHANGED <<users, listings, session, payments, inflight>>

\* ---- register -----------------------------------------------------------
register ==
    \/ /\ resp' = Render("register", "GET", NoArgs, "register.html", "")
       /\ UNCHANGED <<users, listings, session, payments, inflight>>
    \/ \E form \in RegistrationForms, salt \in Salts :
        LET username == form.username
            email == form.email
            password == generate_password_hash(form.password, salt)
            args == FormArgs(form)
        IN  /\ IF filter_by_username(username) # 0
               THEN /\ resp' = Redirect("register", "POST", args, "register",
                                        "Username already exists")
                    /\ UNCHANGED users
               ELSE IF UniqueViolation(username, email)
                    THEN /\ resp' = ServerError("register", "POST", args)
                         /\ UNCHANGED users
                    ELSE /\ users' = Append(users,
                                User(Len(users) + 1, username, email, password))
                         /\ resp' = Redirect("register", "POST", args, "login",
                                             "Registered successfully!")
            /\ UNCHANGED <<listings, session, payments, inflight>>

\* ---- login / logout -----------------------------------------------------
login ==
    \/ /\ resp' = Render("login", "GET", NoArgs, "login.html", "")
       /\ UNCHANGED <<users, listings, session, payments, inflight>>
    \/ \E username \in Usernames, pw \in Passwords :
        LET u == filter_by_username(username)
        IN  /\ IF u # 0 /\ check_password_hash(users[u].password, pw)
               THEN /\ session' = users[u].id
                    /\ resp' = Redirect("login", "POST", NoArgs, "index", "")
               ELSE /\ resp' = Render("login", "POST", NoArgs, "login.html",
                                      "Invalid credentials")
                    /\ UNCHANGED session
            /\ UNCHANGED <<users, listings, payments, inflight>>

logout ==
    /\ IF is_authenticated
       THEN /\ session' = Anonymous
            /\ resp' = Redirect("logout", "GET", NoArgs, "index", "")
       ELSE /\ resp' = Unauthorized("logout", "GET", NoArgs)
            /\ UNCHANGED session
    /\ UNCHANGED <<users, listings, payments, inflight>>

\* ---- add_listing --------------------------------------------------------
add_listing ==
    \E m \in Methods :
        /\ IF ~is_authenticated
           THEN /\ resp' = Unauthorized("add_listing", m, NoArgs)
                /\ UNCHANGED listings
           ELSE IF m = "POST"
                THEN \E price \in Prices :
                     /\ Len(listings) < MaxListings
                     /\ listings' = Append(listings,
                            Listing(Len(listings) + 1, price, session))
                     /\ resp' = Redirect("add_listing", m, NoArgs, "index",
                                         "Listing added!")
                ELSE /\ resp' = Render("add_listing", m, NoArgs,
                                       "add_listing.html", "")
                     /\ UNCHANGED listings
        /\ UNCHANGED <<users, session, payments, inflight>>

\* ---- buy ----------------------------------------------------------------
IsOwnListing_Never(listing, user_id) == FALSE

\* listing.seller_id == current_user.id
IsOwnListing(listing, user_id) == listing.seller_id = user_id

MarkPending_Skip(ls, listing_id) == ls

MarkPending_Sold(ls, listing_id) == [ls EXCEPT ![listing_id].status = "sold"]

\* listing.status = 'pending'; db.session.commit()
MarkPending(ls, listing_id) == [ls EXCEPT ![listing_id].status = "pending"]

ListingsAfterCreate_MarkFirst(outcome, ls, listing_id) ==
    MarkPending(ls, listing_id)

\* Payment.create runs before the status assignment: a fault raised by it
\* leaves the handler before the listing is touched
ListingsAfterCreate(outcome, ls, listing_id) ==
    IF outcome = "ok" THEN MarkPending(ls, listing_id) ELSE ls

buy ==
    \E listing_id \in ListingIds :
        LET args == IdArgs(listing_id)
        IN  /\ IF ~is_authenticated
               THEN /\ resp' = Unauthorized("buy", "POST", args)
                    /\ UNCHANGED <<listings, payments>>
               ELSE IF listing_id > Len(listings)
                    THEN /\ resp' = NotFound("buy", "POST", args)
                         /\ UNCHANGED <<listings, payments>>
                    ELSE IF IsOwnListing(listings[listing_id], session)
                         THEN /\ resp' = Redirect("buy", "POST", args, "index",
                                                  "Cannot buy your own listing")
                              /\ UNCHANGED <<listings, payments>>
                         ELSE \E outcome \in ProviderOutcomes :
                              /\ listings' = ListingsAfterCreate(outcome, listings,
                                                                 listing_id)
                              /\ IF outcome = "ok"
                                 THEN /\ payments' = [payments EXCEPT
                                             ![listing_id] = @ \cup {session}]
                                      /\ resp' = Redirect("buy", "POST", args,
                                                          "checkout", "")
                                 ELSE /\ resp' = ServerError("buy", "POST", args)
                                      /\ UNCHANGED payments
            /\ UNCHANGED <<users, session, inflight>>

\* ---- confirm_payment ----------------------------------------------------
confirm_payment ==
    /\ resp' = Redirect("confirm_payment", "GET", NoArgs, "index",
                        "Payment processed! Check your email for delivery.")
    /\ UNCHANGED <<users, listings, session, payments, inflight>>

\* ---- register, one store access at a time --------------------------------
Idle == [pc |-> "idle", username |-> "", email |-> "", password |-> <<>>]

\* lines 62-67: read the form, hash, look the username up
RegisterLookup(w) ==
    /\ inflight[w].pc = "idle"
    /\ \E form \in RegistrationForms, salt \in Salts :
        IF filter_by_username(form.username) # 0
        THEN /\ resp' = Redirect("register", "POST", FormArgs(form), "register",
                                 "Username already exists")
             /\ UNCHANGED inflight
        ELSE /\ inflight' = [inflight EXCEPT ![w] =
                    [pc |-> "commit", username |-> form.username,
                     email |-> form.email,
                     password |-> generate_password_hash(form.password, salt)]]
             /\ UNCHANGED resp
    /\ UNCHANGED <<users, listings, session, payments>>

\* lines 68-72: add the row and commit
RegisterCommit(w) ==
    LET r == inflight[w]
        args == [username |-> r.username, email |-> r.email, listing_id |-> 0]
    IN  /\ r.pc = "commit"
        /\ IF UniqueViolation(r.username, r.email)
           THEN /\ resp' = ServerError("register", "POST", args)
                /\ UNCHANGED users
           ELSE /\ users' = Append(users,
                       User(Len(users) + 1, r.username, r.email, r.password))
                /\ resp' = Redirect("register", "POST", args, "login",
                                    "Registered successfully!")
        /\ inflight' = [inflight EXCEPT ![w] = Idle]
        /\ UNCHANGED <<listings, session, payments>>

\* ---- specifications -----------------------------------------------------
Init ==
    /\ users = <<>>
    /\ listings = <<>>
    /\ session = Anonymous
    /\ payments = [l \in 1..MaxListings |-> {}]
    /\ resp = Response("", "", NoArgs, 0, "", "")
    /\ inflight = [w \in Workers |-> Idle]

Next ==
    \/ index
    \/ register
    \/ login
    \/ logout
    \/ add_listing
    \/ buy
    \/ confirm_payment

Spec == Init /\ [][Next]_vars

NextConc == \E w \in Workers : RegisterLookup(w) \/ RegisterCommit(w)

SpecConc == Init /\ [][NextConc]_vars

\* ---- properties ---------------------------------------------------------
Rows(seq) == {seq[i] : i \in 1..Len(seq)}

\* the step just taken was a request to `route`
Served(route) == resp'.route = route

\* the step just taken was POST /buy/<l> by a logged-in account other than
\* the seller of the existing listing l
BuyByOther(l) ==
    /\ Served("buy")
    /\ resp'.args.listing_id = l
    /\ session # Anonymous
    /\ session # listings[l].seller_id

\* C1: the index route lists exactly the listings whose status is 'active',
\* never one that is 'pending' or 'sold'.
C1_ListActiveOnlyActive ==
    LET shown == Rows(listActive)
    IN  /\ shown = {l \in Rows(listings) : l.status = "active"}
        /\ \A l \in shown : l.status \notin {"pending", "sold"}

C1_Witness ==
    /\ resp.route = "index"
    /\ \E l \in Rows(listings) : l.status = "active"
    /\ \E l \in Rows(listings) : l.status = "pending"

\* C2: a listing is listed right after its seller creates it; a buy by
\* another logged-in account that the provider answers with a checkout URL
\* turns an active listing 'pending' and takes it off the index.
C2_BuyMakesPending ==
    [][ /\ (Served("add_listing") /\ Len(listings') = Len(listings) + 1)
            => listings'[Len(listings')] \in Rows(listActive')
        /\ \A l \in 1..Len(listings) :
            (BuyByOther(l) /\ listings[l].status = "active"
                           /\ resp'.to = "checkout")
            => /\ listings[l] \in Rows(listActive)
               /\ listings'[l].status = "pending"
               /\ \A k \in Rows(listActive') : k.id # l ]_vars

C2_Witness ==
    /\ resp.route = "buy"
    /\ resp.to = "checkout"
    /\ listings[resp.args.listing_id].status = "pending"
    /\ payments[resp.args.listing_id] = {session}

\* C3: while a listing is pending, no payment request is created for it on
\* behalf of a further buyer.
C3_NoSecondBuyerWhilePending ==
    [][ \A l \in 1..Len(listings) :
            listings[l].status = "pending" => payments'[l] \subseteq payments[l] ]_vars

\* C4 (as claimed): a provider fault during a buy by a non-seller on an
\* active listing leaves the listing pending and off the index.
C4_FaultLeavesPending ==
    [][ \A l \in 1..Len(listings) :
            (BuyByOther(l) /\ listings[l].status = "active" /\ resp'.code = 500)
            => /\ listings'[l].status = "pending"
               /\ \A k \in Rows(listActive') : k.id # l ]_vars

\* C4 (amended): a provider fault during a buy by a non-seller on an active
\* listing surfaces as a server error and leaves the listing active and
\* listed; no listing changes and no payment request is recorded.
C4_FaultLeavesActive ==
    [][ \A l \in 1..Len(listings) :
            (BuyByOther(l) /\ listings[l].status = "active" /\ resp'.code = 500)
            => /\ listings' = listings
               /\ payments' = payments
               /\ listings'[l].status = "active"
               /\ listings'[l] \in Rows(listActive') ]_vars

C4_Witness ==
    /\ resp.route = "buy"
    /\ resp.code = 500
    /\ session # Anonymous
    /\ listings[resp.args.listing_id].seller_id # session
    /\ listings[resp.args.listing_id].status = "active"

\* C5: a buy issued by the listing's own seller is answered with a redirect
\* and changes no listing, no account, no session and creates no payment.
C5_OwnListingBuyNoEffect ==
    [][ \A l \in 1..Len(listings) :
            (Served("buy") /\ resp'.args.listing_id = l
                           /\ session # Anonymous
                           /\ listings[l].seller_id = session)
            => /\ listings' = listings
               /\ payments' = payments
               /\ users' = users
               /\ session' = session
               /\ resp'.code = 302
               /\ resp'.flash = "Cannot buy your own listing" ]_vars

C5_Witness ==
    /\ resp.flash = "Cannot buy your own listing"
    /\ listings[resp.args.listing_id].seller_id = session
    /\ listings[resp.args.listing_id].status = "active"
    /\ Len(listings) = 2

\* C6: a register POST whose username is already stored is redirected back
\* with a message, adds no account and leaves the stored account as it was:
\* the username still resolves to it and its password hash still verifies.
C6_DuplicateUsernameRejected ==
    [][ \A i \in 1..Len(users) :
            (Served("register") /\ resp'.method = "POST"
                                /\ resp'.args.username = users[i].username)
            => /\ users' = users
               /\ resp'.code = 302
               /\ resp'.to = "register"
               /\ filter_by_username(users[i].username)' = i
               /\ \E pw \in Passwords :
                      check_password_hash(users'[i].password, pw) ]_vars

C6_Witness ==
    /\ resp.route = "register"
    /\ resp.flash = "Username already exists"
    /\ \E i \in 1..Len(users) :
        /\ users[i].username = resp.args.username
        /\ users[i].email # resp.args.email

\* the step just taken was a register POST with a username not stored and
\* an email that a stored account already has
RegisterDuplicateEmail ==
    /\ Served("register")
    /\ resp'.method = "POST"
    /\ \A i \in 1..Len(users) : users[i].username # resp'.args.username
    /\ \E i \in 1..Len(users) : users[i].email = resp'.args.email

\* C7 (as claimed): a register with a new username and an email already
\* stored persists a new account with that email.
C7_DuplicateEmailAccepted ==
    [][ RegisterDuplicateEmail
        => /\ Len(users') = Len(users) + 1
           /\ users'[Len(users')].email = resp'.args.email ]_vars

\* C7 (amended): a register with a new username and an email already stored
\* faults at commit (server error) and persists nothing; no two stored
\* accounts ever share an email.
C7_DuplicateEmailFaults ==
    [][ /\ RegisterDuplicateEmail => (users' = users /\ resp'.code = 500)
        /\ \A i, j \in 1..Len(users') :
               i # j => users'[i].email # users'[j].email ]_vars

C7_Witness ==
    /\ resp.route = "register"
    /\ resp.code = 500
    /\ \A i \in 1..Len(users) : users[i].username # resp.args.username
    /\ \E i \in 1..Len(users) : users[i].email = resp.args.email

\* C8: add_listing without a logged-in session is redirected to login and
\* creates no row; a row is only ever created with the logged-in account as
\* seller, and every stored seller_id is the id of a stored account.
C8_UnauthenticatedAddRefused ==
    [][ /\ (Served("add_listing") /\ session = Anonymous)
            => /\ listings' = listings
               /\ resp'.code = 302
               /\ resp'.to = "login"
        /\ Len(listings') > Len(listings)
            => /\ session # Anonymous
               /\ listings'[Len(listings')].seller_id = session
        /\ \A l \in Rows(listings') :
               \E u \in Rows(users') : u.id = l.seller_id ]_vars

C8_Witness ==
    /\ resp.route = "add_listing"
    /\ resp.method = "POST"
    /\ resp.to = "login"
    /\ session = Anonymous
    /\ Len(users) > 0
    /\ Len(listings) > 0

\* C9: over every request a listing keeps its status or goes from 'active'
\* to 'pending'; new listings start 'active'; none is ever 'sold'; no row
\* disappears.
C9_StatusMonotone ==
    [][ /\ Len(listings') >= Len(listings)
        /\ \A i \in 1..Len(listings) :
            \/ listings'[i].status = listings[i].status
            \/ listings[i].status = "active" /\ listings'[i].status = "pending"
        /\ \A i \in (Len(listings) + 1)..Len(listings') :
            listings'[i].status = "active"
        /\ \A i \in 1..Len(listings') : listings'[i].status # "sold" ]_vars

C9_Witness ==
    /\ resp.route = "confirm_payment"
    /\ \E l \in Rows(listings) : l.status = "pending"
    /\ \E l \in Rows(listings) : l.status = "active"

\* C10: with register requests interleaved between lookup and commit, a
\* commit for a username that is already stored faults and persists
\* nothing, and no two stored accounts ever share a username.
C10_UsernamesUnique ==
    [][ /\ \A w \in Workers :
            (inflight[w].pc = "commit" /\ inflight'[w].pc = "idle"
                /\ \E i \in 1..Len(users) :
                       users[i].username = inflight[w].username)
            => (users' = users /\ resp'.code = 500)
        /\ \A i, j \in 1..Len(users') :
               i # j => users'[i].username # users'[j].username ]_vars

\* a commit has faulted on the username alone: it passed the lookup, and
\* its email is not stored
C10_Witness ==
    /\ resp.route = "register"
    /\ resp.code = 500
    /\ \E i \in 1..Len(users) : users[i].username = resp.args.username
    /\ \A i \in 1..Len(users) : users[i].email # resp.args.email
====
